---- MODULE Spec2Model ----
(***************************************************************************)
(* A model of modular_optuna_ml's study orchestration (study/manager.py)   *)
(* and of its feature-selection data hooks                                 *)
(* (data/hooks/feature_selection.py).                                      *)
(*                                                                         *)
(* Three specifications share the module:                                  *)
(*   Spec      StudyManager.run() with its result store                    *)
(*   SpecNull  SampleNullityDrop.run / FeatureNullityDrop.run              *)
(*   SpecPCA   PrincipalComponentAnalysis.tune / run / run_fitted          *)
(***************************************************************************)
EXTENDS Integers, Sequences, FiniteSets, TLC

(* ---------------------------- bounds ---------------------------------- *)

MaxReplicates == 3      \* study_config.no_replicates ranges over 1..MaxReplicates
MaxTrials == 2          \* study_config.no_trials ranges over 1..MaxTrials
MaxSeed == 1            \* study_config.random_seed ranges over 0..MaxSeed
MaxSamples == 3         \* samples of the container pre-analysis returns
MaxPreDraws == 1        \* global-RNG draws the pre-analysis pipeline may consume
RngMod == 8             \* size of the modelled RNG state space (stands for the
                        \* Mersenne Twister state and the int32 draw range)
MaxTunes == 2           \* tune() calls made on the hook outside StudyManager

VARIABLES
    (* StudyManager *)
    pc,              \* where run() is
    error,           \* the exception that ended run(), or "none"
    study_config,    \* [no_replicates, no_trials, random_seed]
    has_pca,         \* the data manager's pipeline holds a PrincipalComponentAnalysis hook
    rng,             \* numpy's global RNG state
    replicate_seeds, \* run(): replicate_seeds
    container,       \* what process_pre_analysis returned: [n, splittable]
    rep,             \* run(): i, the index of the replicate
    trial,           \* the next trial.number of the running replicate's study
    tpc,             \* where opt_func is: "idle", "fitted", "inserted"
    store,           \* the sqlite file: [file, table, rows] (rows: committed)
    initial_store,   \* the store as run() found it
    pending,         \* rows inserted in the open transaction, not committed
    dbLog,           \* the store operations this run performed, in order
    started,         \* the rep arguments run_supervised was called with, in order
    samplerSeeds,    \* the seed handed to each replicate's TPESampler
    folds,           \* the test_idx of each replicate started
    (* PrincipalComponentAnalysis *)
    backing_pca,     \* self.backing_pca: None or [n_components, fit]
    tuneLog,         \* every tune() call, with the (replicate, trial) it was made in
    pca_x,           \* the containers handed to run/run_fitted: [train, test]
    pca_call,        \* the last run/run_fitted call: its outputs and its fits
    (* NullityDrop hooks *)
    nd_x,            \* the container passed to run()
    nd_threshold,    \* self.threshold, as a numerator over ThresholdDen
    nd_call          \* the last run() call: hook, outcome, result

mvars == <<pc, error, study_config, has_pca, rng, replicate_seeds, container, rep,
           trial, tpc, store, initial_store, pending, dbLog, started, samplerSeeds,
           folds>>
pvars == <<backing_pca, tuneLog, pca_x, pca_call>>
nvars == <<nd_x, nd_threshold, nd_call>>
vars == <<mvars, pvars, nvars>>

\* Python's None
None == [none |-> TRUE]

(* ---------------------------- numpy RNG -------------------------------- *)

\* np.random.seed(s): the state is a function of s alone
Seeded(s) == s % RngMod

\* one step of the generator; the value drawn is the new state
NextRng(st) == (5 * st + 3) % RngMod

RECURSIVE Advance(_, _)
Advance(st, k) == IF k = 0 THEN st ELSE Advance(NextRng(st), k - 1)

\* np.random.randint(0, int32 max, size=k) from state st: the k values drawn
RandInts(st, k) == [j \in 1..k |-> Advance(st, j)]

(* ---------------------------- sklearn ---------------------------------- *)

\* StratifiedKFold(n_splits=k, random_state=seed, shuffle=True).split over n
\* samples: the test indices of fold i (0-based); the folds partition 0..n-1
\* and are a function of (seed, k, n) only
KFoldTestIdx(seed, k, n, i) == {j \in 0..(n - 1) : (j + seed) % k = i}

(* ---------------------------- result store ----------------------------- *)

Row(r, t) == [replicate |-> r, trial |-> t]

InitialStores ==
    { [file |-> FALSE, table |-> FALSE, rows |-> <<>>],
      [file |-> TRUE,  table |-> FALSE, rows |-> <<>>],
      [file |-> TRUE,  table |-> TRUE,  rows |-> <<>>],
      [file |-> TRUE,  table |-> TRUE,  rows |-> <<Row(0, 0)>>] }

(* ---------------------------- PCA backing transform -------------------- *)

\* arrays are sequences of rows, a row a sequence of integers
ColSum(X, c) ==
    LET S[k \in 0..Len(X)] == IF k = 0 THEN 0 ELSE S[k - 1] + X[k][c]
    IN S[Len(X)]

\* PCA.fit: the fitted state is the column centre of the array it was fitted
\* on (kept as column sums and row count, to stay in the integers)
PcaFit(bp, X) ==
    [n_components |-> bp.n_components,
     fit |-> [n |-> Len(X),
              sums |-> [c \in 1..(IF Len(X) = 0 THEN 0 ELSE Len(X[1])) |-> ColSum(X, c)]]]

\* PCA.transform: centres X with the fitted state (scaled by the fitted n)
PcaTransform(bp, X) ==
    [r \in 1..Len(X) |->
        [c \in 1..Len(X[r]) |-> bp.fit.n * X[r][c] - bp.fit.sums[c]]]

ZeroArray(n) == [r \in 1..n |-> <<0>>]

(* ---------------------------- Init ------------------------------------- *)

MInit ==
    /\ pc = "INITIALIZED"
    /\ error = "none"
    /\ study_config \in [no_replicates : 1..MaxReplicates,
                         no_trials : 1..MaxTrials,
                         random_seed : 0..MaxSeed]
    /\ has_pca \in BOOLEAN
    /\ rng \in {0, RngMod - 1}
    /\ replicate_seeds = <<>>
    /\ container = None
    /\ rep = 0
    /\ trial = 0
    /\ tpc = "idle"
    /\ store \in InitialStores
    /\ initial_store = store
    /\ pending = <<>>
    /\ dbLog = <<>>
    /\ started = <<>>
    /\ samplerSeeds = <<>>
    /\ folds = <<>>

PInitIdle ==
    /\ backing_pca = None
    /\ tuneLog = <<>>
    /\ pca_x = None
    /\ pca_call = None

NInitIdle ==
    /\ nd_x = None
    /\ nd_threshold = 0
    /\ nd_call = None

Init == MInit /\ PInitIdle /\ NInitIdle

(* ---------------------------- StudyManager.run ------------------------- *)

Raise(e) ==
    /\ pc' = "FAILED"
    /\ error' = e

\* PrincipalComponentAnalysis.tune(trial), called by a client of the hook.
\* StudyManager itself never calls it (neither run() nor opt_func does).
Tune ==
    /\ pc = "INITIALIZED"
    /\ has_pca
    /\ Len(tuneLog) < MaxTunes
    /\ \E p \in 1..2 :
          backing_pca' = [n_components |-> p, fit |-> None]
    /\ tuneLog' = Append(tuneLog, Row(-1, -1))
    /\ UNCHANGED <<mvars, pca_x, pca_call, nvars>>

\* mutant: the global RNG is not seeded before the replicate seeds are drawn
SeedState_Unseeded == rng

\* lines 124-125: init_seed = random_seed; np.random.seed(init_seed)
SeedState == Seeded(study_config.random_seed)

\* lines 124-132: seed the global RNG, draw the replicate seeds, build the
\* splitter (StratifiedKFold refuses n_splits < 2 with a ValueError)
SeedRun ==
    /\ pc = "INITIALIZED"
    /\ LET k == study_config.no_replicates
       IN /\ replicate_seeds' = RandInts(SeedState, k)
          /\ rng' = Advance(SeedState, k)
    /\ IF study_config.no_replicates < 2
          THEN Raise("ValueError")
          ELSE pc' = "SEEDED" /\ error' = error
    /\ UNCHANGED <<study_config, has_pca, container, rep, trial, tpc, store,
                   initial_store, pending, dbLog, started, samplerSeeds, folds>>
    /\ UNCHANGED <<pvars, nvars>>

\* line 135: data_manager.process_pre_analysis(): the hook pipeline runs once,
\* calling run(x) of each hook; it may draw from the global RNG, and returns a
\* container of some size and capability. A PrincipalComponentAnalysis hook in
\* the pipeline dereferences self.backing_pca (feature_selection.py line 133).
PreAnalysis ==
    /\ pc = "SEEDED"
    /\ \E n \in 1..MaxSamples, sp \in BOOLEAN, d \in 0..MaxPreDraws :
          IF has_pca /\ backing_pca = None
             THEN /\ Raise("AttributeError")
                  /\ UNCHANGED <<rng, container, backing_pca>>
             ELSE /\ pc' = "PRE_ANALYSED"
                  /\ error' = error
                  /\ rng' = Advance(rng, d)
                  /\ container' = [n |-> n, splittable |-> sp]
                  /\ backing_pca' = IF has_pca
                                       THEN PcaFit(backing_pca, ZeroArray(n))
                                       ELSE backing_pca
    /\ UNCHANGED <<study_config, has_pca, replicate_seeds, rep, trial, tpc, store,
                   initial_store, pending, dbLog, started, samplerSeeds, folds>>
    /\ UNCHANGED <<tuneLog, pca_x, pca_call, nvars>>

\* line 138: isinstance(data_manager, FeatureSplittableManager)
IsFeatureSplittable(c) == c.splittable

\* mutant: the result store is opened before the capability check
PopTarget_AfterInitDb ==
    /\ pc = "PRE_ANALYSED"
    /\ store' = [store EXCEPT !.file = TRUE, !.table = TRUE]
    /\ dbLog' = Append(dbLog, "create")
    /\ IF IsFeatureSplittable(container)
          THEN pc' = "TARGET_POPPED" /\ error' = error
          ELSE Raise("NotImplementedError")
    /\ UNCHANGED <<study_config, has_pca, rng, replicate_seeds, container, rep, trial,
                   tpc, initial_store, pending, started, samplerSeeds, folds>>
    /\ UNCHANGED <<pvars, nvars>>

\* lines 137-142: pop the target, or refuse the unsupervised flow
PopTarget ==
    /\ pc = "PRE_ANALYSED"
    /\ IF IsFeatureSplittable(container)
          THEN pc' = "TARGET_POPPED" /\ error' = error
          ELSE Raise("NotImplementedError")
    /\ UNCHANGED <<study_config, has_pca, rng, replicate_seeds, container, rep, trial,
                   tpc, store, initial_store, pending, dbLog, started, samplerSeeds,
                   folds>>
    /\ UNCHANGED <<pvars, nvars>>

\* mutant: CREATE TABLE IF NOT EXISTS, which an existing table does not refuse
CreateTableFails_IfNotExists == FALSE

\* line 91: CREATE TABLE <study_label> (...) is refused by sqlite when the
\* table exists
CreateTableFails == store.table

\* mutant: the table is not created by init_db()
InitDb_NoCreate ==
    /\ pc = "TARGET_POPPED"
    /\ pc' = "DB_READY"
    /\ store' = [store EXCEPT !.file = TRUE]
    /\ dbLog' = IF store.file THEN dbLog ELSE Append(dbLog, "touch")
    /\ UNCHANGED <<error, study_config, has_pca, rng, replicate_seeds, container, rep,
                   trial, tpc, initial_store, pending, started, samplerSeeds, folds>>
    /\ UNCHANGED <<pvars, nvars>>

\* lines 75-94 and 145: init_db(): touch the file if absent, connect, create
\* the table
InitDb ==
    /\ pc = "TARGET_POPPED"
    /\ LET touched == ~store.file
           log1 == IF touched THEN Append(dbLog, "touch") ELSE dbLog
       IN IF CreateTableFails
             THEN /\ Raise("OperationalError")
                  /\ store' = [store EXCEPT !.file = TRUE]
                  /\ dbLog' = log1
             ELSE /\ pc' = "DB_READY"
                  /\ error' = error
                  /\ store' = [store EXCEPT !.file = TRUE, !.table = TRUE]
                  /\ dbLog' = Append(log1, "create")
    /\ UNCHANGED <<study_config, has_pca, rng, replicate_seeds, container, rep, trial,
                   tpc, initial_store, pending, started, samplerSeeds, folds>>
    /\ UNCHANGED <<pvars, nvars>>

\* line 148: enumerate(skf_splitter.split(...)) yields folds while i < n_splits
FoldsRemain == rep < study_config.no_replicates

\* lines 148-161 and 163-190: the loop takes fold i, reseeds the global RNG with
\* the replicate's seed, splits the data and enters run_supervised, which
\* creates a fresh study with a sampler seeded by s. split() refuses more folds
\* than samples when its first fold is asked for.
StartReplicate ==
    /\ pc = "DB_READY"
    /\ FoldsRemain
    /\ IF rep = 0 /\ study_config.no_replicates > container.n
          THEN /\ Raise("ValueError")
               /\ UNCHANGED <<rng, trial, tpc, started, samplerSeeds, folds>>
          ELSE LET s == replicate_seeds[rep + 1]
               IN /\ pc' = "REPLICATE_RUNNING"
                  /\ error' = error
                  /\ rng' = Seeded(s)
                  /\ folds' = Append(folds, KFoldTestIdx(study_config.random_seed,
                                                      study_config.no_replicates,
                                                      container.n, rep))
                  /\ started' = Append(started, rep)
                  /\ samplerSeeds' = Append(samplerSeeds, s)
                  /\ trial' = 0
                  /\ tpc' = "idle"
    /\ UNCHANGED <<study_config, has_pca, replicate_seeds, container, rep, store,
                   initial_store, pending, dbLog>>
    /\ UNCHANGED <<pvars, nvars>>

\* mutant: one trial too many
TrialsRemain_OffByOne == trial <= study_config.no_trials

\* line 191: study.optimize(opt_func, n_trials=no_trials) runs trials
\* numbered 0, 1, ... while fewer than n_trials have run
TrialsRemain == trial < study_config.no_trials

\* lines 172-177: build the model from the trial, fit it, compute the metrics
FitTrial ==
    /\ pc = "REPLICATE_RUNNING"
    /\ tpc = "idle"
    /\ TrialsRemain
    /\ tpc' = "fitted"
    /\ UNCHANGED <<pc, error, study_config, has_pca, rng, replicate_seeds, container,
                   rep, trial, store, initial_store, pending, dbLog, started,
                   samplerSeeds, folds>>
    /\ UNCHANGED <<pvars, nvars>>

\* lines 172-177 raising (the model cannot be built or fitted, a metric is
\* undefined): optimize() re-raises and run() ends
TrialRaises ==
    /\ pc = "REPLICATE_RUNNING"
    /\ tpc = "idle"
    /\ TrialsRemain
    /\ Raise("TrialError")
    /\ UNCHANGED <<study_config, has_pca, rng, replicate_seeds, container, rep, trial,
                   tpc, store, initial_store, pending, dbLog, started, samplerSeeds,
                   folds>>
    /\ UNCHANGED <<pvars, nvars>>

\* lines 96-102 (from line 180): save_results(rep, trial.number, metrics)
\* executes the INSERT, which opens a transaction
InsertRow ==
    /\ pc = "REPLICATE_RUNNING"
    /\ tpc = "fitted"
    /\ pending' = Append(pending, Row(rep, trial))
    /\ dbLog' = Append(dbLog, "insert")
    /\ tpc' = "inserted"
    /\ UNCHANGED <<pc, error, study_config, has_pca, rng, replicate_seeds, container,
                   rep, trial, store, initial_store, started, samplerSeeds, folds>>
    /\ UNCHANGED <<pvars, nvars>>

\* mutant: save_results() without the commit
Commit_Missing ==
    /\ pc = "REPLICATE_RUNNING"
    /\ tpc = "inserted"
    /\ trial' = trial + 1
    /\ tpc' = "idle"
    /\ UNCHANGED <<pc, error, study_config, has_pca, rng, replicate_seeds, container,
                   rep, store, initial_store, pending, dbLog, started, samplerSeeds,
                   folds>>
    /\ UNCHANGED <<pvars, nvars>>

\* line 103: self.db_connection.commit(), then opt_func returns (line 183) and
\* the study counts the trial
Commit ==
    /\ pc = "REPLICATE_RUNNING"
    /\ tpc = "inserted"
    /\ store' = [store EXCEPT !.rows = store.rows \o pending]
    /\ pending' = <<>>
    /\ dbLog' = Append(dbLog, "commit")
    /\ trial' = trial + 1
    /\ tpc' = "idle"
    /\ UNCHANGED <<pc, error, study_config, has_pca, rng, replicate_seeds, container,
                   rep, initial_store, started, samplerSeeds, folds>>
    /\ UNCHANGED <<pvars, nvars>>

\* line 191 returning: optimize() is done, run_supervised returns to the loop
EndReplicate ==
    /\ pc = "REPLICATE_RUNNING"
    /\ tpc = "idle"
    /\ ~TrialsRemain
    /\ pc' = "DB_READY"
    /\ rep' = rep + 1
    /\ trial' = 0
    /\ UNCHANGED <<error, study_config, has_pca, rng, replicate_seeds, container, tpc,
                   store, initial_store, pending, dbLog, started, samplerSeeds, folds>>
    /\ UNCHANGED <<pvars, nvars>>

\* line 148 exhausted: run() returns
Finish ==
    /\ pc = "DB_READY"
    /\ ~FoldsRemain
    /\ pc' = "DONE"
    /\ UNCHANGED <<error, study_config, has_pca, rng, replicate_seeds, container, rep,
                   trial, tpc, store, initial_store, pending, dbLog, started,
                   samplerSeeds, folds>>
    /\ UNCHANGED <<pvars, nvars>>

Running == pc \notin {"INITIALIZED", "DONE", "FAILED", "INTERRUPTED"}

\* the process is killed during run(): the open transaction is never
\* committed, sqlite rolls it back
Interrupt ==
    /\ Running
    /\ pc' = "INTERRUPTED"
    /\ pending' = <<>>
    /\ UNCHANGED <<error, study_config, has_pca, rng, replicate_seeds, container, rep,
                   trial, tpc, store, initial_store, dbLog, started, samplerSeeds,
                   folds>>
    /\ UNCHANGED <<pvars, nvars>>

Next ==
    \/ Tune
    \/ SeedRun
    \/ PreAnalysis
    \/ PopTarget
    \/ InitDb
    \/ StartReplicate
    \/ FitTrial
    \/ TrialRaises
    \/ InsertRow
    \/ Commit
    \/ EndReplicate
    \/ Finish
    \/ Interrupt

Spec == Init /\ [][Next]_vars

(* ---------------------------- NullityDrop hooks ----------------------- *)

MaxRows == 3            \* samples of a container handed to a NullityDrop hook
MaxFeatures == 2        \* features of such a container
ThresholdDen == 4       \* thresholds are the fractions k / ThresholdDen in [0, 1]

Range(seq) == {seq[k] : k \in DOMAIN seq}

\* a container: its samples and features in order, the cells that are null,
\* and whether its type has the multi-feature capability
Containers ==
    UNION { { [samples |-> [i \in 1..n |-> i],
               features |-> [j \in 1..f |-> j],
               isnull |-> nulls,
               multi |-> m] :
                 nulls \in SUBSET ((1..n) \X (1..f)),
                 m \in (IF f = 1 THEN BOOLEAN ELSE {TRUE}) } :
            n \in 0..MaxRows, f \in 1..MaxFeatures }

\* lines 76 and 90: int(n_samples * self.threshold), the threshold being
\* thr / ThresholdDen; int() truncates, which is floor on a product >= 0
NullTolerance(x, thr) == (Len(x.samples) * thr) \div ThresholdDen

\* line 78: np.sum(pd.isnull(k.as_array())) for the sample at position i
SampleNullCount(x, i) ==
    Cardinality({f \in Range(x.features) : <<x.samples[i], f>> \in x.isnull})

\* line 92: np.sum(pd.isnull(x.get_features(k).as_array())) for feature f
FeatureNullCount(x, f) ==
    Cardinality({i \in DOMAIN x.samples : <<x.samples[i], f>> \in x.isnull})

\* mutant: a sample at the tolerance is kept
SampleKept_Inclusive(count, tol) == count <= tol

\* line 78: the comparison that keeps a sample
SampleKept(count, tol) == count < tol

\* mutant: a feature at the tolerance is dropped
FeatureDropped_Inclusive(count, tol) == count >= tol

\* line 92: the comparison that drops a feature
FeatureDropped(count, tol) == count > tol

\* x[keep_idx]: the samples at the given positions, in the order given
RowSubset(x, idx) ==
    [x EXCEPT !.samples = [j \in 1..Len(idx) |-> x.samples[idx[j]]]]

\* x.drop_features(names): a new container without them
DropFeatures(x, names) ==
    [x EXCEPT !.features = SelectSeq(x.features, LAMBDA f : f \notin Range(names))]

\* lines 75-79: SampleNullityDrop.run
SampleNullityDrop(x, thr) ==
    LET null_tolerance == NullTolerance(x, thr)
        keep_idx == SelectSeq([i \in 1..Len(x.samples) |-> i],
                              LAMBDA i : SampleKept(SampleNullCount(x, i), null_tolerance))
    IN [outcome |-> "returned", result |-> RowSubset(x, keep_idx)]

\* lines 85-93: FeatureNullityDrop.run
FeatureNullityDrop(x, thr) ==
    IF ~x.multi
       THEN [outcome |-> "TypeError", result |-> None]
       ELSE LET null_tolerance == NullTolerance(x, thr)
                drop_idx == SelectSeq(x.features,
                               LAMBDA k : FeatureDropped(FeatureNullCount(x, k),
                                                         null_tolerance))
            IN [outcome |-> "returned", result |-> DropFeatures(x, drop_idx)]

\* no study runs: the manager is constructed and left alone
MInitIdle ==
    /\ pc = "INITIALIZED"
    /\ error = "none"
    /\ study_config = [no_replicates |-> 2, no_trials |-> 1, random_seed |-> 0]
    /\ has_pca = TRUE
    /\ rng = 0
    /\ replicate_seeds = <<>>
    /\ container = None
    /\ rep = 0
    /\ trial = 0
    /\ tpc = "idle"
    /\ store = [file |-> FALSE, table |-> FALSE, rows |-> <<>>]
    /\ initial_store = store
    /\ pending = <<>>
    /\ dbLog = <<>>
    /\ started = <<>>
    /\ samplerSeeds = <<>>
    /\ folds = <<>>

NInit ==
    /\ nd_x \in Containers
    /\ nd_threshold \in 0..ThresholdDen
    /\ nd_call = None

SampleNullityDropRun ==
    /\ nd_call' = [hook |-> "sample_drop_null"] @@ SampleNullityDrop(nd_x, nd_threshold)
    /\ UNCHANGED <<nd_x, nd_threshold, mvars, pvars>>

FeatureNullityDropRun ==
    /\ nd_call' = [hook |-> "feature_drop_null"] @@ FeatureNullityDrop(nd_x, nd_threshold)
    /\ UNCHANGED <<nd_x, nd_threshold, mvars, pvars>>

InitNull == MInitIdle /\ PInitIdle /\ NInit

NextNull == SampleNullityDropRun \/ FeatureNullityDropRun

SpecNull == InitNull /\ [][NextNull]_vars

(* ---------------------------- claims on SpecNull ---------------------- *)

SampleCalled == nd_call # None /\ nd_call.hook = "sample_drop_null"
FeatureCalled == nd_call # None /\ nd_call.hook = "feature_drop_null"

\* the tolerance of the claims: floor(len(x) * threshold)
Tolerance == (Len(nd_x.samples) * nd_threshold) \div ThresholdDen

NullsOfSample(s) == Cardinality({c \in nd_x.isnull : c[1] = s})
NullsOfFeature(f) == Cardinality({c \in nd_x.isnull : c[2] = f})

C8_FeatureDropAboveTolerance ==
    FeatureCalled =>
        IF nd_x.multi
           THEN LET out == nd_call.result.features
                IN /\ nd_call.outcome = "returned"
                   /\ \A f \in Range(nd_x.features) :
                         f \notin Range(out) <=> NullsOfFeature(f) > Tolerance
                   /\ \A a, b \in DOMAIN out : a < b => out[a] < out[b]
                   /\ Range(out) \subseteq Range(nd_x.features)
                   /\ nd_call.result.samples = nd_x.samples
           ELSE /\ nd_call.outcome = "TypeError"
                /\ nd_call.result = None

C8_Witness ==
    /\ FeatureCalled
    /\ nd_x.multi
    /\ \E f, g \in Range(nd_x.features) :
          /\ NullsOfFeature(f) = Tolerance
          /\ f \in Range(nd_call.result.features)
          /\ NullsOfFeature(g) = Tolerance + 1
          /\ g \notin Range(nd_call.result.features)

(* ---------------------------- PrincipalComponentAnalysis -------------- *)

MaxPcaRows == 2         \* samples of an array handed to the PCA hook
MaxValue == 1           \* its entries range over 0..MaxValue

\* the arrays of a container with c features
Arrays(c) == UNION { [1..n -> [1..c -> 0..MaxValue]] : n \in 1..MaxPcaRows }

\* a container handed to the hook: single-feature (one column, no
\* MultiFeatureMixin) or multi-feature (here two columns)
PcaContainers ==
    { [multi |-> FALSE, features |-> <<"f0">>, array |-> a] : a \in Arrays(1) }
    \cup { [multi |-> TRUE, features |-> <<"f0", "f1">>, array |-> a] : a \in Arrays(2) }

Min(a, b) == IF a < b THEN a ELSE b

\* the components the transform yields: n_components of them, at most one
\* per column
Components(bp, X) == Min(bp.n_components, Len(X[1]))

\* PCA.transform, keeping the leading components
Project(bp, X) ==
    LET full == PcaTransform(bp, X)
    IN [r \in 1..Len(X) |-> SubSeq(full[r], 1, Components(bp, X))]

\* lines 134 and 159: [f'PC{i}' for i in range(tmp.shape[1])]
FeatureLabels(k) == [i \in 1..k |-> <<"PC", i - 1>>]

\* lines 137-138, 162-163, 167-168: drop every feature, set the components
SetFeatures(x, labels, arr) == [multi |-> x.multi, features |-> labels, array |-> arr]

\* lines 127-144: PrincipalComponentAnalysis.run(x)
PcaRun ==
    /\ pc = "INITIALIZED"
    /\ LET x == pca_x.train
       IN IF backing_pca = None
             THEN /\ pca_call' = [op |-> "run", outcome |-> "AttributeError"]
                  /\ backing_pca' = backing_pca
             ELSE LET fitted == PcaFit(backing_pca, x.array)
                      tmp_train == Project(fitted, x.array)
                  IN /\ backing_pca' = fitted
                     /\ pca_call' =
                          [op |-> "run", outcome |-> "returned",
                           fits |-> <<x.array>>,
                           x_out |-> IF x.multi
                                        THEN SetFeatures(x, FeatureLabels(Len(tmp_train[1])),
                                                         tmp_train)
                                        ELSE [raw |-> tmp_train]]
    /\ UNCHANGED <<tuneLog, pca_x, mvars, nvars>>

\* lines 146-175: PrincipalComponentAnalysis.run_fitted(x_train, x_test)
PcaRunFitted ==
    /\ pc = "INITIALIZED"
    /\ LET x_train == pca_x.train
           x_test == pca_x.test
       IN IF backing_pca = None
             THEN /\ pca_call' = [op |-> "run_fitted", outcome |-> "AttributeError"]
                  /\ backing_pca' = backing_pca
             ELSE IF x_train.multi
             THEN \* lines 157-168
                  LET fitted == PcaFit(backing_pca, x_train.array)
                      tmp_train == Project(fitted, x_train.array)
                      feature_labels == FeatureLabels(Len(tmp_train[1]))
                      tmp_test == Project(fitted, x_test.array)
                  IN /\ backing_pca' = fitted
                     /\ pca_call' =
                          [op |-> "run_fitted", outcome |-> "returned",
                           fits |-> <<x_train.array>>,
                           test_fit |-> fitted.fit,
                           train_out |-> SetFeatures(x_train, feature_labels, tmp_train),
                           test_out |-> SetFeatures(x_test, feature_labels, tmp_test)]
             ELSE \* lines 173-174: fit_transform on each
                  LET fitted == PcaFit(backing_pca, x_train.array)
                      refitted == PcaFit(fitted, x_test.array)
                  IN /\ backing_pca' = refitted
                     /\ pca_call' =
                          [op |-> "run_fitted", outcome |-> "returned",
                           fits |-> <<x_train.array, x_test.array>>,
                           test_fit |-> refitted.fit,
                           train_out |-> [raw |-> Project(fitted, x_train.array)],
                           test_out |-> [raw |-> Project(refitted, x_test.array)]]
    /\ UNCHANGED <<tuneLog, pca_x, mvars, nvars>>

\* the hook is constructed (backing_pca is None, line 112); x_train and x_test
\* are the two parts of one container, so of one kind
PInit ==
    /\ backing_pca = None
    /\ tuneLog = <<>>
    /\ pca_x \in { [train |-> a, test |-> b] :
                     a \in PcaContainers,
                     b \in PcaContainers }
    /\ pca_x.train.multi = pca_x.test.multi
    /\ pca_call = None

InitPCA == MInitIdle /\ PInit /\ NInitIdle

NextPCA == Tune \/ PcaRun \/ PcaRunFitted

SpecPCA == InitPCA /\ [][NextPCA]_vars

(* ---------------------------- claims on SpecPCA ----------------------- *)

RunFittedReturned ==
    pca_call # None /\ pca_call.op = "run_fitted" /\ pca_call.outcome = "returned"

\* C2: in every run_fitted(x_train, x_test) call, multi-feature or
\* single-feature, the backing transform is fitted on x_train only and the
\* state x_test is transformed with is the train-fitted one: no fit on x_test.
C2_FitOnTrainOnly ==
    RunFittedReturned =>
        /\ pca_call.fits = <<pca_x.train.array>>
        /\ pca_call.test_fit = PcaFit(backing_pca, pca_x.train.array).fit

(* ---------------------------- claims on Spec -------------------------- *)

R == study_config.no_replicates
T == study_config.no_trials

\* the rows this run committed (the store's rows after those it found)
NewRows == SubSeq(store.rows, Len(initial_store.rows) + 1, Len(store.rows))

Occurrences(seq, x) == Cardinality({k \in DOMAIN seq : seq[k] = x})

\* C1: a run() on a fresh store that completes without error leaves exactly
\* R x T rows: one row for every (replicate, trial) pair with 0 <= i < R and
\* 0 <= t < T, and no other row.
C1_OneRowPerReplicateTrial ==
    (pc = "DONE" /\ ~initial_store.table) =>
        /\ Len(store.rows) = R * T
        /\ \A i \in 0..(R - 1), t \in 0..(T - 1) : Occurrences(store.rows, Row(i, t)) = 1
        /\ \A k \in DOMAIN store.rows :
              /\ store.rows[k].replicate \in 0..(R - 1)
              /\ store.rows[k].trial \in 0..(T - 1)

C1_Witness ==
    /\ pc = "DONE"
    /\ ~initial_store.table
    /\ R = 3
    /\ T = 2
    /\ Len(store.rows) = 6

\* C3: during a study run, for every trial of every replicate the tunable
\* hook's tune(trial) is called exactly once (before the hook runs for it).
\* Stated over the trials whose row was committed and the trial in progress.
C3_TuneOncePerTrial ==
    has_pca =>
        /\ \A k \in DOMAIN NewRows : Occurrences(tuneLog, NewRows[k]) = 1
        /\ (pc = "REPLICATE_RUNNING" /\ tpc # "idle") =>
              Occurrences(tuneLog, Row(rep, trial)) = 1

\* C4: when the store already holds the study's table, init_db() fails: the
\* run never gets past it (no replicate, no trial), and the store keeps
\* exactly the rows it had.
C4_ExistingTableFailsInitDb ==
    /\ (initial_store.table
          /\ pc \notin {"INITIALIZED", "SEEDED", "PRE_ANALYSED", "TARGET_POPPED"}) =>
            /\ pc \in {"FAILED", "INTERRUPTED"}
            /\ started = <<>>
            /\ pending = <<>>
            /\ dbLog = <<>>
            /\ store = initial_store
    /\ error = "OperationalError" => initial_store.table

C4_Witness ==
    /\ pc = "FAILED"
    /\ error = "OperationalError"
    /\ store.rows = <<Row(0, 0)>>

\* C5: a container without the feature-splittable capability makes run() fail
\* with NotImplementedError at target extraction, before the result store is
\* opened: no file is touched, no table is created, no replicate runs, no row
\* is written.
C5_UnsplittableFailsBeforeStore ==
    (container # None /\ ~container.splittable) =>
        /\ pc \in {"PRE_ANALYSED", "FAILED", "INTERRUPTED"}
        /\ pc = "FAILED" => error = "NotImplementedError"
        /\ store = initial_store
        /\ dbLog = <<>>
        /\ started = <<>>
        /\ pending = <<>>

C5_Witness ==
    /\ pc = "FAILED"
    /\ error = "NotImplementedError"
    /\ ~store.file

\* the (replicate, trial) execution sequence of a run
ExecSeq == [k \in 1..(R * T) |-> Row((k - 1) \div T, (k - 1) % T)]

\* the trials whose save_results() has returned
Completed == rep * T + trial

\* C6: each trial's row is committed before the next trial starts, so at any
\* point (an interruption included) the committed rows are exactly those of
\* the trials whose save_results completed: a prefix of the execution
\* sequence, without the trial in progress and without a gap.
C6_CommittedRowsArePrefix ==
    /\ Completed <= R * T
    /\ NewRows = SubSeq(ExecSeq, 1, Completed)
    /\ tpc = "idle" => pending = <<>>
    /\ tpc # "idle" => Occurrences(NewRows, Row(rep, trial)) = 0

C6_Witness ==
    /\ pc = "INTERRUPTED"
    /\ tpc = "inserted"
    /\ pending = <<>>
    /\ Len(NewRows) = 3

\* C9: the replicate seeds, each replicate's train/test split and the seed
\* handed to each replicate's sampler are functions of random_seed and
\* no_replicates (and the data) alone: they do not depend on the state the
\* global RNG was in, nor on what the pre-analysis pipeline drew from it.
C9_SeedsDependOnSeedOnly ==
    LET expected == RandInts(Seeded(study_config.random_seed), R)
    IN /\ pc # "INITIALIZED" => replicate_seeds = expected
       /\ Len(samplerSeeds) = Len(started)
       /\ Len(folds) = Len(started)
       /\ \A k \in DOMAIN started :
             /\ samplerSeeds[k] = expected[k]
             /\ folds[k] = KFoldTestIdx(study_config.random_seed, R, container.n, k - 1)

C9_Witness ==
    /\ pc = "REPLICATE_RUNNING"
    /\ Len(samplerSeeds) = 2
    /\ samplerSeeds[1] # samplerSeeds[2]
    /\ folds[1] # folds[2]

Transitions ==
    { <<"INITIALIZED", "SEEDED">>, <<"SEEDED", "PRE_ANALYSED">>,
      <<"PRE_ANALYSED", "TARGET_POPPED">>, <<"TARGET_POPPED", "DB_READY">>,
      <<"DB_READY", "REPLICATE_RUNNING">>, <<"REPLICATE_RUNNING", "DB_READY">>,
      <<"DB_READY", "DONE">> }

C10_State ==
    /\ Occurrences(dbLog, "create") <= 1
    /\ pc \in {"DB_READY", "REPLICATE_RUNNING", "DONE"} => Occurrences(dbLog, "create") = 1
    /\ started # <<>> => Occurrences(dbLog, "create") = 1
    /\ \A k \in DOMAIN dbLog :
          dbLog[k] \in {"insert", "commit"} => \E j \in 1..(k - 1) : dbLog[j] = "create"
    /\ started = [k \in 1..Len(started) |-> k - 1]
    /\ pc = "REPLICATE_RUNNING" => Len(started) = rep + 1
    /\ pc = "DONE" => Len(started) = R
    /\ \A a, b \in DOMAIN NewRows :
          a < b => NewRows[a].replicate <= NewRows[b].replicate
    /\ pending # <<>> => pc = "REPLICATE_RUNNING"

C10_Step ==
    /\ C10_State
    /\ C10_State'
    /\ (pc' # pc /\ pc' \notin {"FAILED", "INTERRUPTED"}) => <<pc, pc'>> \in Transitions
    /\ (store'.rows # store.rows \/ Len(pending') > Len(pending)) =>
          (pc = "REPLICATE_RUNNING" /\ pc' = "REPLICATE_RUNNING")

\* C10: a run follows INITIALIZED -> DB_READY -> (REPLICATE_RUNNING)* -> DONE:
\* the table is created exactly once, before any replicate starts; replicates
\* run one at a time in the order 0..R-1; every row of replicate i is saved
\* before any row of replicate i+1; no row is written outside a running
\* replicate.
C10_RunStateMachine == [][C10_Step]_vars

C10_Witness ==
    /\ pc = "DONE"
    /\ started = <<0, 1, 2>>
    /\ Len(NewRows) = 6

====
